---- MODULE Spec2Model ----
(***************************************************************************)
(* Model of static/app.js, the client script of the personal library       *)
(* manager: the in-page row filter, the live toggle, mark-read, the        *)
(* barcode scanner glue and the inline row editor, with the requests they  *)
(* send and the responses that come back in any order.                     *)
(*                                                                         *)
(* Strings are sequences of one-character strings, so that trimming,       *)
(* lower-casing, substring search and digit stripping are computed.        *)
(***************************************************************************)
EXTENDS Integers, Sequences, FiniteSets, TLC

\* ------------------------------------------------------------ bounds
NumRows == 2
MaxInFlight == 2
MaxScanners == 2
MaxReloads == 1
MaxTyped == 1
MaxTimers == 1

Rows == 1..NumRows
NoRow == 0

\* ------------------------------------------------------------ strings
Empty == <<>>

ToLowerChar(c) ==
    CASE c = "A" -> "a"
      [] c = "B" -> "b"
      [] c = "T" -> "t"
      [] c = "X" -> "x"
      [] OTHER -> c

ToLowerCase(s) == [i \in 1..Len(s) |-> ToLowerChar(s[i])]

IsSpace(c) == c = " "

RECURSIVE TrimStart(_)
TrimStart(s) ==
    IF s # Empty /\ IsSpace(Head(s)) THEN TrimStart(Tail(s)) ELSE s

RECURSIVE TrimEnd(_)
TrimEnd(s) ==
    IF s # Empty /\ IsSpace(s[Len(s)]) THEN TrimEnd(SubSeq(s, 1, Len(s) - 1)) ELSE s

Trim(s) == TrimEnd(TrimStart(s))

\* String.prototype.includes: q occurs in s as a contiguous run ("" always does).
Includes(s, q) ==
    \E i \in 0..(Len(s) - Len(q)) : SubSeq(s, i + 1, i + Len(q)) = q

IsDigit(c) == c \in {"0", "1", "2", "3", "4", "5", "6", "7", "8", "9"}

RECURSIVE StripNonDigits(_)
StripNonDigits(s) ==
    IF s = Empty THEN Empty
    ELSE IF IsDigit(Head(s)) THEN <<Head(s)>> \o StripNonDigits(Tail(s))
    ELSE StripNonDigits(Tail(s))

normalizeIsbn(s) == IF s = Empty THEN Empty ELSE StripNonDigits(s)

EscapeChar(c) ==
    CASE c = "&" -> <<"&", "a", "m", "p", ";">>
      [] c = "<" -> <<"&", "l", "t", ";">>
      [] c = ">" -> <<"&", "g", "t", ";">>
      [] c = "\"" -> <<"&", "q", "u", "o", "t", ";">>
      [] c = "'" -> <<"&", "#", "3", "9", ";">>
      [] OTHER -> <<c>>

RECURSIVE escapeHtml(_)
escapeHtml(s) ==
    IF s = Empty THEN Empty ELSE EscapeChar(Head(s)) \o escapeHtml(Tail(s))

\* The character references escapeHtml writes, as the HTML parser reads them
\* back when the markup is assigned to innerHTML.
Entities ==
    { [ref |-> <<"&", "a", "m", "p", ";">>, char |-> "&"],
      [ref |-> <<"&", "l", "t", ";">>, char |-> "<"],
      [ref |-> <<"&", "g", "t", ";">>, char |-> ">"],
      [ref |-> <<"&", "q", "u", "o", "t", ";">>, char |-> "\""],
      [ref |-> <<"&", "#", "3", "9", ";">>, char |-> "'"] }

StartsWith(s, p) == Len(s) >= Len(p) /\ SubSeq(s, 1, Len(p)) = p

RECURSIVE ParseAttribute(_)
ParseAttribute(s) ==
    IF s = Empty THEN Empty
    ELSE IF \E e \in Entities : StartsWith(s, e.ref)
         THEN LET e == CHOOSE x \in Entities : StartsWith(s, x.ref)
              IN  <<e.char>> \o ParseAttribute(SubSeq(s, Len(e.ref) + 1, Len(s)))
         ELSE <<Head(s)>> \o ParseAttribute(Tail(s))

\* `x || y` on strings: the empty string is falsy.
OrElse(x, y) == IF x # Empty THEN x ELSE y

\* ------------------------------------------------------------ the rendered table
\* What the server renders for a book: the data-* attributes of its row.
Library ==
    << [title |-> <<"A", "b">>, authors |-> <<"x">>, tags |-> Empty,
        isbn |-> <<"9", "-", "7">>, giftFrom |-> Empty, isGift |-> FALSE],
       [title |-> <<"b", "&">>, authors |-> Empty, tags |-> <<"a", " ", "b">>,
        isbn |-> <<"9", "7">>, giftFrom |-> <<"X">>, isGift |-> TRUE],
       [title |-> Empty, authors |-> <<"B">>, tags |-> <<"t">>,
        isbn |-> Empty, giftFrom |-> Empty, isGift |-> FALSE] >>

BookAt(i) == Library[((i - 1) % Len(Library)) + 1]

\* The tables the server may render.
Tables == { [r \in Rows |-> BookAt(r)], [r \in Rows |-> BookAt(r + 1)] }

\* data-live as the template may write it.
LiveAttrs == { <<"T", "r", "u", "e">>, <<"f", "a", "l", "s", "e">> }

StrTrue == <<"t", "r", "u", "e">>
StrFalse == <<"f", "a", "l", "s", "e">>

IsLiveAttr(v) == ToLowerCase(v) = StrTrue

SearchTexts == { Empty, <<" ", "B", " ">>, <<"a", " ", "b">>, <<"x">> }

DecodedTexts == { <<"9", " ", "7">>, <<"5">>, <<"x">> }

TypedTexts == { <<" ", "x", " ">> }

\* ------------------------------------------------------------ markup
\* The innerHTML of a table cell.  `value` and `checked` are the attributes as
\* written in the markup, not the live properties of the parsed element.
Html(kind, class, value, checked) ==
    [kind |-> kind, class |-> class, value |-> value, checked |-> checked]

Text(s) == Html("text", "", s, FALSE)

NumCells == 9

\* Column k of the table (0-based, as the script indexes row.children) is
\* position k + 1 of the row's cell sequence.
TitleCell == 1
AuthorsCell == 3
TagsCell == 4
GiftFromCell == 6
GiftCell == 7
LiveCell == 8
ActionsCell == 9

\* The row as the server renders it: title, ISBN, authors, tags, last read,
\* gifted by, gift? checkbox, live? checkbox, actions (Mark read, Edit).
RenderCells(book, live) ==
    << Text(book.title), Text(book.isbn), Text(book.authors), Text(book.tags),
       Text(Empty), Text(book.giftFrom),
       Html("checkbox", "gift-toggle", Empty, book.isGift),
       Html("checkbox", "live-toggle", Empty, IsLiveAttr(live)),
       Html("buttons", "mark-read edit-book", Empty, FALSE) >>

TextContent(cell) == IF cell.kind = "text" THEN cell.value ELSE Empty

NoInputs ==
    [present |-> FALSE, title |-> Empty, authors |-> Empty, tags |-> Empty,
     gift_from |-> Empty, is_gift |-> FALSE]

NoValues == <<>>

NoMsg == <<>>

Msg(text) == <<text>>

NoEvent == [name |-> "load", row |-> NoRow, arg |-> <<>>]

Ev(name, row, arg) == [name |-> name, row |-> row, arg |-> arg]

VARIABLES
    rowData,        \* r -> the book rendered in row r (its data-* attributes)
    rowLive,        \* r -> row.dataset.live
    rowDisplay,     \* r -> row.style.display
    searchValue,    \* searchInput.value
    liveOnly,       \* liveOnlyCheckbox.checked
    cells,          \* r -> innerHTML of each cell of row r
    rowClass,       \* r -> row.classList.contains('editing')
    originalValues, \* r -> row._originalValues
    wired,          \* r -> the cells whose elements are those the page-load listeners were attached to
    editInputs,     \* r -> the current values of the edit inputs of row r
    liveChecked,    \* r -> the checked property of the row's live checkbox
    editingRow,     \* the script's editingRow (NoRow for null)
    requests,       \* the fetches in flight, in the order they were issued
    errorMessage,   \* the text shown in #error-message (NoMsg when hidden)
    errorTimers,    \* pending 6 s hide timers
    typed,          \* input events in edit inputs since page load
    scanners,       \* the Html5Qrcode instances created since page load, oldest first
    html5QrCode,    \* the script's html5QrCode: index of the instance it refers to (0: undefined)
    scannerDisplay, \* scannerContainer.style.display
    isbnInput,      \* the Add form's ISBN field
    stopRequested,  \* the last scanner button clicked was stop-scan
    reloads,        \* number of window.location.reload() calls so far
    lastEvent       \* the last event delivered to the page

domVars == <<cells, rowClass, originalValues, wired, editInputs, liveChecked, editingRow>>

scanVars == <<scanners, html5QrCode, scannerDisplay, isbnInput, stopRequested>>

vars == <<rowData, rowLive, rowDisplay, searchValue, liveOnly, cells, rowClass,
          originalValues, wired, editInputs, liveChecked, editingRow, requests,
          errorMessage, errorTimers, typed, scanners, html5QrCode, scannerDisplay,
          isbnInput, stopRequested, reloads, lastEvent>>

\* ------------------------------------------------------------ filterRows
RowMatchesQuery(data, query) ==
    \/ query = Empty
    \/ Includes(ToLowerCase(data.title), query)
    \/ Includes(ToLowerCase(data.authors), query)
    \/ Includes(ToLowerCase(data.tags), query)

RowPassesLive(live, only) == ~only \/ IsLiveAttr(live)

\* filterRows with the query lower-cased but not trimmed.
filterRows_NoTrim(data, live, search, only) ==
    [r \in Rows |->
        IF RowMatchesQuery(data[r], ToLowerCase(search)) /\ RowPassesLive(live[r], only)
        THEN "" ELSE "none"]

\* The display every row gets from one run of filterRows.
filterRows(data, live, search, only) ==
    [r \in Rows |->
        IF RowMatchesQuery(data[r], ToLowerCase(Trim(search))) /\ RowPassesLive(live[r], only)
        THEN "" ELSE "none"]

\* ------------------------------------------------------------ the row editor
\* The part of the page the editor reads and writes, as one record.
Dom ==
    [cells |-> cells, rowClass |-> rowClass, originalValues |-> originalValues,
     wired |-> wired, editInputs |-> editInputs, liveChecked |-> liveChecked,
     editingRow |-> editingRow]

\* cancelEditing restoring every cell but the gift cell.
cancelEditing_SkipGift(d, row) ==
    IF ~d.rowClass[row] THEN d
    ELSE LET orig == d.originalValues[row]
         IN  [d EXCEPT
                !.cells[row] = [k \in 1..NumCells |->
                                   IF k \in DOMAIN orig /\ k # GiftCell THEN orig[k] ELSE @[k]],
                !.wired[row] = @ \ DOMAIN orig,
                !.liveChecked[row] =
                    IF LiveCell \in DOMAIN orig THEN orig[LiveCell].checked ELSE @,
                !.editInputs[row] = NoInputs,
                !.rowClass[row] = FALSE,
                !.editingRow = NoRow]

\* Assigning innerHTML re-parses the markup: the cell gets new elements, which
\* carry no listeners and whose properties are those the markup states.
cancelEditing(d, row) ==
    IF ~d.rowClass[row] THEN d
    ELSE LET orig == d.originalValues[row]
         IN  [d EXCEPT
                !.cells[row] = [k \in 1..NumCells |->
                                   IF k \in DOMAIN orig THEN orig[k] ELSE @[k]],
                !.wired[row] = @ \ DOMAIN orig,
                !.liveChecked[row] =
                    IF LiveCell \in DOMAIN orig THEN orig[LiveCell].checked ELSE @,
                !.editInputs[row] = NoInputs,
                !.rowClass[row] = FALSE,
                !.editingRow = NoRow]

EditedCells == {TitleCell, AuthorsCell, TagsCell, GiftFromCell, GiftCell, ActionsCell}

EditCells(old, title, authors, tags, giftFrom, isGift) ==
    [old EXCEPT
        ![TitleCell] = Html("input", "edit-title", escapeHtml(title), FALSE),
        ![AuthorsCell] = Html("input", "edit-authors", escapeHtml(authors), FALSE),
        ![TagsCell] = Html("input", "edit-tags", escapeHtml(tags), FALSE),
        ![GiftFromCell] = Html("input", "edit-gift-from", escapeHtml(giftFrom), FALSE),
        ![GiftCell] = Html("checkbox", "edit-gift-toggle", Empty, isGift),
        ![ActionsCell] = Html("buttons", "save-edit cancel-edit", Empty, FALSE)]

enableEditing(d0, data, row) ==
    LET d == IF d0.editingRow # NoRow /\ d0.editingRow # row
             THEN cancelEditing(d0, d0.editingRow) ELSE d0
    IN  IF d.rowClass[row] THEN d
        ELSE LET old == d.cells[row]
                 title == OrElse(data[row].title, TextContent(old[TitleCell]))
                 authors == OrElse(data[row].authors, TextContent(old[AuthorsCell]))
                 tags == OrElse(data[row].tags, TextContent(old[TagsCell]))
                 giftFrom == OrElse(data[row].giftFrom, TextContent(old[GiftFromCell]))
                 isGift == IF old[GiftCell].class = "gift-toggle"
                           THEN old[GiftCell].checked ELSE FALSE
                 new == EditCells(old, title, authors, tags, giftFrom, isGift)
             IN  [d EXCEPT
                    !.editingRow = row,
                    !.rowClass[row] = TRUE,
                    !.originalValues[row] = old,
                    !.cells[row] = new,
                    !.wired[row] = @ \ EditedCells,
                    !.editInputs[row] =
                        [present |-> TRUE,
                         title |-> ParseAttribute(new[TitleCell].value),
                         authors |-> ParseAttribute(new[AuthorsCell].value),
                         tags |-> ParseAttribute(new[TagsCell].value),
                         gift_from |-> ParseAttribute(new[GiftFromCell].value),
                         is_gift |-> new[GiftCell].checked]]

SetDom(d) ==
    /\ cells' = d.cells
    /\ rowClass' = d.rowClass
    /\ originalValues' = d.originalValues
    /\ wired' = d.wired
    /\ editInputs' = d.editInputs
    /\ liveChecked' = d.liveChecked
    /\ editingRow' = d.editingRow

\* ------------------------------------------------------------ page load
\* The state right after the DOMContentLoaded handler has run on a page the
\* server rendered with the given books and live flags.
LoadPage(data, live, only, n, ev) ==
    /\ rowData' = data
    /\ rowLive' = live
    /\ searchValue' = Empty
    /\ liveOnly' = only
    /\ rowDisplay' = filterRows(data, live, Empty, only)
    /\ cells' = [r \in Rows |-> RenderCells(data[r], live[r])]
    /\ rowClass' = [r \in Rows |-> FALSE]
    /\ originalValues' = [r \in Rows |-> NoValues]
    /\ wired' = [r \in Rows |-> 1..NumCells]
    /\ editInputs' = [r \in Rows |-> NoInputs]
    /\ liveChecked' = [r \in Rows |-> IsLiveAttr(live[r])]
    /\ editingRow' = NoRow
    /\ requests' = <<>>
    /\ errorMessage' = NoMsg
    /\ errorTimers' = 0
    /\ typed' = 0
    /\ scanners' = <<>>
    /\ html5QrCode' = 0
    /\ scannerDisplay' = "none"
    /\ isbnInput' = Empty
    /\ stopRequested' = FALSE
    /\ reloads' = n
    /\ lastEvent' = ev

Init ==
    /\ rowData \in Tables
    /\ rowLive \in [Rows -> LiveAttrs]
    /\ searchValue = Empty
    /\ liveOnly \in BOOLEAN
    /\ rowDisplay = filterRows(rowData, rowLive, searchValue, liveOnly)
    /\ cells = [r \in Rows |-> RenderCells(rowData[r], rowLive[r])]
    /\ rowClass = [r \in Rows |-> FALSE]
    /\ originalValues = [r \in Rows |-> NoValues]
    /\ wired = [r \in Rows |-> 1..NumCells]
    /\ editInputs = [r \in Rows |-> NoInputs]
    /\ liveChecked = [r \in Rows |-> IsLiveAttr(rowLive[r])]
    /\ editingRow = NoRow
    /\ requests = <<>>
    /\ errorMessage = NoMsg
    /\ errorTimers = 0
    /\ typed = 0
    /\ scanners = <<>>
    /\ html5QrCode = 0
    /\ scannerDisplay = "none"
    /\ isbnInput = Empty
    /\ stopRequested = FALSE
    /\ reloads = 0
    /\ lastEvent = NoEvent

\* data-live as the template writes a flag.
RenderLive(flag) == IF flag THEN <<"T", "r", "u", "e">> ELSE StrFalse

\* window.location.reload(): the page is rendered anew by the server and the
\* script starts over; fetches in flight are abandoned with the old page.
\* The server renders the table and flags the old page showed.
Reload(ev) ==
    /\ reloads < MaxReloads
    /\ LoadPage(rowData, [r \in Rows |-> RenderLive(IsLiveAttr(rowLive[r]))], liveOnly,
                reloads + 1, ev)

\* ------------------------------------------------------------ helpers
RowId(r) == 10 * r

Remove(seq, k) == SubSeq(seq, 1, k - 1) \o SubSeq(seq, k + 1, Len(seq))

\* How a fetch settles: answered with an OK status, answered with another
\* status, or rejected (network failure).
Outcomes == {"ok", "not-ok", "error"}

Request(kind, url, row, body) == [kind |-> kind, url |-> url, row |-> row, body |-> body]

Visible(r) == rowDisplay[r] = ""

HasRowButtons(r) == cells[r][ActionsCell].class = "mark-read edit-book"

HasEditButtons(r) == cells[r][ActionsCell].class = "save-edit cancel-edit"

\* showError: the message is put in #error-message and a hide timer is set.
showError(msg) ==
    /\ errorTimers < MaxTimers
    /\ errorMessage' = msg
    /\ errorTimers' = errorTimers + 1

\* A hide timer fires: whatever message is showing is cleared.
HideError ==
    /\ errorTimers > 0
    /\ errorMessage' = NoMsg
    /\ errorTimers' = errorTimers - 1
    /\ lastEvent' = Ev("error-timeout", NoRow, <<>>)
    /\ UNCHANGED <<scanVars, rowData, rowLive, rowDisplay, searchValue, liveOnly, domVars,
                   requests, typed, reloads>>

SearchInput(v) ==
    /\ searchValue' = v
    /\ rowDisplay' = filterRows(rowData, rowLive, v, liveOnly)
    /\ lastEvent' = Ev("search-input", NoRow, <<>>)
    /\ UNCHANGED <<scanVars, rowData, rowLive, liveOnly, domVars, requests, errorMessage,
                   errorTimers, typed, reloads>>

LiveOnlyChange ==
    /\ liveOnly' = ~liveOnly
    /\ rowDisplay' = filterRows(rowData, rowLive, searchValue, ~liveOnly)
    /\ lastEvent' = Ev("live-only-change", NoRow, <<>>)
    /\ UNCHANGED <<scanVars, rowData, rowLive, searchValue, domVars, requests, errorMessage,
                   errorTimers, typed, reloads>>

\* ------------------------------------------------------------ live toggle
\* The user flips the live checkbox of row r.  Only a checkbox that still is
\* the element the listener was attached to at page load sends the update.
LiveToggleChange(r) ==
    /\ Visible(r)
    /\ liveChecked' = [liveChecked EXCEPT ![r] = ~@]
    /\ IF LiveCell \in wired[r]
       THEN /\ Len(requests) < MaxInFlight
            /\ requests' = Append(requests,
                   Request("live", <<"/update", RowId(r)>>, r, [is_live |-> ~liveChecked[r]]))
       ELSE UNCHANGED requests
    /\ lastEvent' = Ev("live-toggle-change", r, <<>>)
    /\ UNCHANGED <<scanVars, rowData, rowLive, rowDisplay, searchValue, liveOnly, cells, rowClass,
                   originalValues, wired, editInputs, editingRow, errorMessage,
                   errorTimers, typed, reloads>>

\* The callback reading the checkbox when the answer arrives instead of the
\* state captured at the change.
LiveToggleSettled_CurrentState(k, outcome) ==
    /\ requests[k].kind = "live"
    /\ LET row == requests[k].row
           live == IF outcome = "error" THEN rowLive
                   ELSE [rowLive EXCEPT ![row] =
                            IF liveChecked[row] THEN StrTrue ELSE StrFalse]
       IN  /\ rowLive' = live
           /\ rowDisplay' = IF outcome = "error" THEN rowDisplay
                            ELSE filterRows(rowData, live, searchValue, liveOnly)
           /\ lastEvent' = Ev("live-response", row, <<outcome>>)
    /\ requests' = Remove(requests, k)
    /\ UNCHANGED <<scanVars, rowData, searchValue, liveOnly, domVars, errorMessage,
                   errorTimers, typed, reloads>>

\* The update of request k settles.  The .then callback runs on any answer,
\* whatever its status; a rejected fetch has no handler.
LiveToggleSettled(k, outcome) ==
    /\ requests[k].kind = "live"
    /\ LET row == requests[k].row
           live == IF outcome = "error" THEN rowLive
                   ELSE [rowLive EXCEPT ![row] =
                            IF requests[k].body.is_live THEN StrTrue ELSE StrFalse]
       IN  /\ rowLive' = live
           /\ rowDisplay' = IF outcome = "error" THEN rowDisplay
                            ELSE filterRows(rowData, live, searchValue, liveOnly)
           /\ lastEvent' = Ev("live-response", row, <<outcome>>)
    /\ requests' = Remove(requests, k)
    /\ UNCHANGED <<scanVars, rowData, searchValue, liveOnly, domVars, errorMessage,
                   errorTimers, typed, reloads>>

\* ------------------------------------------------------------ mark read
MarkReadClick(r) ==
    /\ Visible(r)
    /\ HasRowButtons(r)
    /\ IF ActionsCell \in wired[r]
       THEN /\ Len(requests) < MaxInFlight
            /\ requests' = Append(requests, Request("read", <<"/read", RowId(r)>>, r, <<>>))
       ELSE UNCHANGED requests
    /\ lastEvent' = Ev("mark-read-click", r, <<>>)
    /\ UNCHANGED <<scanVars, rowData, rowLive, rowDisplay, searchValue, liveOnly, domVars,
                   errorMessage, errorTimers, typed, reloads>>

\* POST /read/<id> settles: any answer reloads, a rejected fetch has no handler.
MarkReadSettled(k, outcome) ==
    /\ requests[k].kind = "read"
    /\ IF outcome = "error"
       THEN /\ requests' = Remove(requests, k)
            /\ lastEvent' = Ev("read-response", requests[k].row, <<outcome>>)
            /\ UNCHANGED <<scanVars, rowData, rowLive, rowDisplay, searchValue, liveOnly,
                           domVars, errorMessage, errorTimers, typed, reloads>>
       ELSE Reload(Ev("read-response", requests[k].row, <<outcome>>))

\* ------------------------------------------------------------ editing
EditClick(r) ==
    /\ Visible(r)
    /\ HasRowButtons(r)
    /\ IF ActionsCell \in wired[r]
       THEN SetDom(enableEditing(Dom, rowData, r))
       ELSE UNCHANGED domVars
    /\ lastEvent' = Ev("edit-click", r, <<>>)
    /\ UNCHANGED <<scanVars, rowData, rowLive, rowDisplay, searchValue, liveOnly, requests,
                   errorMessage, errorTimers, typed, reloads>>

CancelClick(r) ==
    /\ Visible(r)
    /\ HasEditButtons(r)
    /\ SetDom(cancelEditing(Dom, r))
    /\ lastEvent' = Ev("cancel-click", r, <<>>)
    /\ UNCHANGED <<scanVars, rowData, rowLive, rowDisplay, searchValue, liveOnly, requests,
                   errorMessage, errorTimers, typed, reloads>>

TextFields == {"title", "authors", "tags", "gift_from"}

\* The user types in one of the edit inputs or flips the edit gift checkbox.
TypeInput(r, field, v) ==
    /\ Visible(r)
    /\ HasEditButtons(r)
    /\ typed < MaxTyped
    /\ typed' = typed + 1
    /\ editInputs' = [editInputs EXCEPT ![r] =
           IF field = "is_gift" THEN [@ EXCEPT !.is_gift = ~@]
           ELSE [@ EXCEPT ![field] = v]]
    /\ lastEvent' = Ev("type", r, <<field>>)
    /\ UNCHANGED <<scanVars, rowData, rowLive, rowDisplay, searchValue, liveOnly, cells, rowClass,
                   originalValues, wired, liveChecked, editingRow, requests,
                   errorMessage, errorTimers, reloads>>

\* The body built from the inputs as typed, without trim().
SaveBody_NoTrim(in) ==
    [title |-> in.title, authors |-> in.authors, tags |-> in.tags,
     gift_from |-> in.gift_from, is_gift |-> in.is_gift]

SaveBody(in) ==
    [title |-> Trim(in.title), authors |-> Trim(in.authors), tags |-> Trim(in.tags),
     gift_from |-> Trim(in.gift_from), is_gift |-> in.is_gift]

SaveClick(r) ==
    /\ Visible(r)
    /\ HasEditButtons(r)
    /\ Len(requests) < MaxInFlight
    /\ requests' = Append(requests,
           Request("save", <<"/update", RowId(r)>>, r, SaveBody(editInputs[r])))
    /\ lastEvent' = Ev("save-click", r, <<>>)
    /\ UNCHANGED <<scanVars, rowData, rowLive, rowDisplay, searchValue, liveOnly, domVars,
                   errorMessage, errorTimers, typed, reloads>>

\* POST /update/<id> of a save settles.
SaveSettled(k, outcome) ==
    /\ requests[k].kind = "save"
    /\ IF outcome = "ok"
       THEN Reload(Ev("save-response", requests[k].row, <<outcome>>))
       ELSE /\ showError(IF outcome = "not-ok" THEN Msg("Failed to save changes.")
                         ELSE Msg("An error occurred while saving changes."))
            /\ requests' = Remove(requests, k)
            /\ lastEvent' = Ev("save-response", requests[k].row, <<outcome>>)
            /\ UNCHANGED <<scanVars, rowData, rowLive, rowDisplay, searchValue, liveOnly,
                           domVars, typed, reloads>>

\* ------------------------------------------------------------ scanner
\* Html5Qrcode is used through its promise interface: start() and stop()
\* return promises, start() settles either way, stop() of a scanning instance
\* is fulfilled and stop() of any other instance is rejected.  Decoded codes
\* are delivered while an instance scans, up to the moment its stop() has
\* completed.  clear() returns normally.  The body of an answered response
\* can be read.
Scanner(mode, state, sent) == [mode |-> mode, state |-> state, sent |-> sent]

EncodeChar(c) ==
    CASE c = " " -> <<"%", "2", "0">>
      [] c = "&" -> <<"%", "2", "6">>
      [] OTHER -> <<c>>

RECURSIVE encodeURIComponent(_)
encodeURIComponent(s) ==
    IF s = Empty THEN Empty ELSE EncodeChar(Head(s)) \o encodeURIComponent(Tail(s))

\* The scanner state stopScanner leaves: [scanners, display].
stopScanner(scs, cur, display) ==
    IF cur # 0
    THEN [scanners |-> IF scs[cur].state = "running"
                       THEN [scs EXCEPT ![cur].state = "stopping"] ELSE scs,
          display |-> display]
    ELSE [scanners |-> scs, display |-> "none"]

\* What a scanner button's handler finds in navigator.onLine and
\* window.Html5Qrcode.
Browser(online, lib) ==
    <<IF online THEN "online" ELSE "offline", IF lib THEN "library" ELSE "no-library">>

\* startScanner showing the container before it makes its two checks.
startScanner_ShowFirst(mode, online, lib) ==
    IF ~online
    THEN /\ showError(Msg("You appear to be offline. Barcode scanning requires an internet connection to load the scanning library."))
         /\ scannerDisplay' = "block"
         /\ UNCHANGED <<scanners, html5QrCode>>
    ELSE IF ~lib
    THEN /\ showError(Msg("Barcode scanner library failed to load. Please check your internet connection or try again later."))
         /\ scannerDisplay' = "block"
         /\ UNCHANGED <<scanners, html5QrCode>>
    ELSE /\ Len(scanners) < MaxScanners
         /\ scannerDisplay' = "block"
         /\ scanners' = Append(scanners, Scanner(mode, "starting", FALSE))
         /\ html5QrCode' = Len(scanners) + 1
         /\ UNCHANGED <<errorMessage, errorTimers>>

\* startScanner(onDecoded), with navigator.onLine and window.Html5Qrcode as read.
startScanner(mode, online, lib) ==
    IF ~online
    THEN /\ showError(Msg("You appear to be offline. Barcode scanning requires an internet connection to load the scanning library."))
         /\ UNCHANGED <<scanners, html5QrCode, scannerDisplay>>
    ELSE IF ~lib
    THEN /\ showError(Msg("Barcode scanner library failed to load. Please check your internet connection or try again later."))
         /\ UNCHANGED <<scanners, html5QrCode, scannerDisplay>>
    ELSE /\ Len(scanners) < MaxScanners
         /\ scannerDisplay' = "block"
         /\ scanners' = Append(scanners, Scanner(mode, "starting", FALSE))
         /\ html5QrCode' = Len(scanners) + 1
         /\ UNCHANGED <<errorMessage, errorTimers>>

StartScanClick(online, lib) ==
    /\ startScanner("default", online, lib)
    /\ stopRequested' = FALSE
    /\ lastEvent' = Ev("start-scan-click", NoRow, Browser(online, lib))
    /\ UNCHANGED <<rowData, rowLive, rowDisplay, searchValue, liveOnly, domVars,
                   requests, typed, isbnInput, reloads>>

ScanMarkReadClick(online, lib) ==
    /\ startScanner("mark-read", online, lib)
    /\ stopRequested' = FALSE
    /\ lastEvent' = Ev("scan-mark-read-click", NoRow, Browser(online, lib))
    /\ UNCHANGED <<rowData, rowLive, rowDisplay, searchValue, liveOnly, domVars,
                   requests, typed, isbnInput, reloads>>

StopScanClick ==
    /\ LET s == stopScanner(scanners, html5QrCode, scannerDisplay)
       IN  /\ scanners' = s.scanners
           /\ scannerDisplay' = s.display
    /\ stopRequested' = TRUE
    /\ lastEvent' = Ev("stop-scan-click", NoRow, <<>>)
    /\ UNCHANGED <<rowData, rowLive, rowDisplay, searchValue, liveOnly, domVars,
                   requests, errorMessage, errorTimers, typed, html5QrCode, isbnInput,
                   reloads>>

\* start() of instance i is fulfilled: the camera runs.
ScannerStarted(i) ==
    /\ scanners[i].state = "starting"
    /\ scanners' = [scanners EXCEPT ![i].state = "running"]
    /\ lastEvent' = Ev("scanner-started", i, <<>>)
    /\ UNCHANGED <<rowData, rowLive, rowDisplay, searchValue, liveOnly, domVars,
                   requests, errorMessage, errorTimers, typed, html5QrCode,
                   scannerDisplay, isbnInput, stopRequested, reloads>>

\* start() of instance i is rejected.
ScannerStartFailed(i) ==
    /\ scanners[i].state = "starting"
    /\ scanners' = [scanners EXCEPT ![i].state = "failed"]
    /\ scannerDisplay' = "none"
    /\ showError(Msg("Unable to access your camera. Please ensure a camera is available and that you have granted permission."))
    /\ lastEvent' = Ev("scanner-start-failed", i, <<>>)
    /\ UNCHANGED <<rowData, rowLive, rowDisplay, searchValue, liveOnly, domVars,
                   requests, typed, html5QrCode, isbnInput, stopRequested, reloads>>

\* stop() of instance i is fulfilled: clear() and hide the container.
StopCompleted(i) ==
    /\ scanners[i].state = "stopping"
    /\ scanners' = [scanners EXCEPT ![i].state = "stopped"]
    /\ scannerDisplay' = "none"
    /\ lastEvent' = Ev("stop-completed", i, <<>>)
    /\ UNCHANGED <<rowData, rowLive, rowDisplay, searchValue, liveOnly, domVars,
                   requests, errorMessage, errorTimers, typed, html5QrCode, isbnInput,
                   stopRequested, reloads>>

\* The rows whose digits-only ISBN is non-empty and equals that of the text.
MatchingRows(data, text) ==
    { r \in Rows : /\ normalizeIsbn(data[r].isbn) # Empty
                   /\ normalizeIsbn(text) # Empty
                   /\ normalizeIsbn(data[r].isbn) = normalizeIsbn(text) }

\* The match made on the raw strings, without normalizeIsbn.
MatchedRow_Raw(data, text) ==
    IF \E r \in Rows : data[r].isbn # Empty /\ data[r].isbn = text
    THEN CHOOSE r \in Rows : data[r].isbn # Empty /\ data[r].isbn = text
    ELSE NoRow

\* forEach keeps the last row that matches (NoRow: none).
MatchedRow(data, text) ==
    IF MatchingRows(data, text) = {} THEN NoRow
    ELSE CHOOSE r \in MatchingRows(data, text) : \A q \in MatchingRows(data, text) : q <= r

IsbnRequest(i, isbn) ==
    Request("isbn", <<"/read_by_isbn">>, NoRow, [isbn |-> encodeURIComponent(isbn)])

\* Instance i delivers a decoded text to the default callback.
DecodeDefault(i, text) ==
    /\ scanners[i].mode = "default"
    /\ scanners[i].state \in {"running", "stopping"}
    /\ LET matched == MatchedRow(rowData, text)
           s == stopScanner(scanners, html5QrCode, scannerDisplay)
       IN  IF matched # NoRow
           THEN /\ Len(requests) < MaxInFlight
                /\ scanners' = [s.scanners EXCEPT ![i].sent = TRUE]
                /\ scannerDisplay' = s.display
                /\ requests' = Append(requests, IsbnRequest(i, rowData[matched].isbn))
                /\ lastEvent' = Ev("decoded", i, text)
                /\ UNCHANGED <<isbnInput, errorMessage, errorTimers>>
           ELSE /\ isbnInput' = text
                /\ scanners' = s.scanners
                /\ scannerDisplay' = s.display
                /\ showError(Msg("Scanned ISBN not found in your library - filled Add form."))
                /\ lastEvent' = Ev("decoded", i, text)
                /\ UNCHANGED requests
    /\ UNCHANGED <<rowData, rowLive, rowDisplay, searchValue, liveOnly, domVars,
                   typed, html5QrCode, stopRequested, reloads>>

\* Instance i delivers a decoded text to the scan-to-mark-read callback.
DecodeMarkRead(i, text) ==
    /\ scanners[i].mode = "mark-read"
    /\ scanners[i].state \in {"running", "stopping"}
    /\ Len(requests) < MaxInFlight
    /\ LET s == stopScanner(scanners, html5QrCode, scannerDisplay)
       IN  /\ scanners' = [s.scanners EXCEPT ![i].sent = TRUE]
           /\ scannerDisplay' = s.display
    /\ requests' = Append(requests, IsbnRequest(i, text))
    /\ lastEvent' = Ev("decoded", i, text)
    /\ UNCHANGED <<rowData, rowLive, rowDisplay, searchValue, liveOnly, domVars,
                   errorMessage, errorTimers, typed, html5QrCode, isbnInput,
                   stopRequested, reloads>>

ResponseTexts == { "No book with that ISBN" }

\* The handler reloading on every answer, OK or not.
IsbnSettled_ReloadOnAnyAnswer(k, outcome, txt) ==
    /\ requests[k].kind = "isbn"
    /\ IF outcome # "error"
       THEN Reload(Ev("isbn-response", NoRow, <<outcome, txt>>))
       ELSE /\ showError(Msg("Network error while marking read."))
            /\ requests' = Remove(requests, k)
            /\ lastEvent' = Ev("isbn-response", NoRow, <<outcome, txt>>)
            /\ UNCHANGED <<scanVars, rowData, rowLive, rowDisplay, searchValue, liveOnly,
                           domVars, typed, reloads>>

\* POST /read_by_isbn settles: answered OK, answered with another status and
\* the text txt, or failed at the network level.
IsbnSettled(k, outcome, txt) ==
    /\ requests[k].kind = "isbn"
    /\ IF outcome = "ok"
       THEN Reload(Ev("isbn-response", NoRow, <<outcome, txt>>))
       ELSE /\ showError(IF outcome = "not-ok" THEN <<"Failed to mark as read: ", txt>>
                         ELSE Msg("Network error while marking read."))
            /\ requests' = Remove(requests, k)
            /\ lastEvent' = Ev("isbn-response", NoRow, <<outcome, txt>>)
            /\ UNCHANGED <<scanVars, rowData, rowLive, rowDisplay, searchValue, liveOnly,
                           domVars, typed, reloads>>

Next ==
    \/ \E v \in SearchTexts : SearchInput(v)
    \/ LiveOnlyChange
    \/ \E r \in Rows : LiveToggleChange(r)
    \/ \E k \in DOMAIN requests, o \in Outcomes : LiveToggleSettled(k, o)
    \/ \E r \in Rows : MarkReadClick(r)
    \/ \E k \in DOMAIN requests, o \in Outcomes : MarkReadSettled(k, o)
    \/ \E r \in Rows : EditClick(r)
    \/ \E r \in Rows : CancelClick(r)
    \/ \E r \in Rows, f \in TextFields, v \in TypedTexts : TypeInput(r, f, v)
    \/ \E r \in Rows : TypeInput(r, "is_gift", Empty)
    \/ \E r \in Rows : SaveClick(r)
    \/ \E k \in DOMAIN requests, o \in Outcomes : SaveSettled(k, o)
    \/ HideError
    \/ \E online \in BOOLEAN, lib \in BOOLEAN : StartScanClick(online, lib)
    \/ \E online \in BOOLEAN, lib \in BOOLEAN : ScanMarkReadClick(online, lib)
    \/ StopScanClick
    \/ \E i \in DOMAIN scanners : ScannerStarted(i)
    \/ \E i \in DOMAIN scanners : ScannerStartFailed(i)
    \/ \E i \in DOMAIN scanners : StopCompleted(i)
    \/ \E i \in DOMAIN scanners, t \in DecodedTexts : DecodeDefault(i, t)
    \/ \E i \in DOMAIN scanners, t \in DecodedTexts : DecodeMarkRead(i, t)
    \/ \E k \in DOMAIN requests, o \in Outcomes, txt \in ResponseTexts : IsbnSettled(k, o, txt)

Spec == Init /\ [][Next]_vars

\* The page used for filtering and live toggling only.
NextFilter ==
    \/ \E v \in SearchTexts : SearchInput(v)
    \/ LiveOnlyChange
    \/ \E r \in Rows : LiveToggleChange(r)
    \/ \E k \in DOMAIN requests, o \in Outcomes : LiveToggleSettled(k, o)

SpecFilter == Init /\ [][NextFilter]_vars

\* The page used for editing rows and marking them read.
NextEdit ==
    \/ LiveOnlyChange
    \/ \E r \in Rows : MarkReadClick(r)
    \/ \E k \in DOMAIN requests, o \in Outcomes : MarkReadSettled(k, o)
    \/ \E r \in Rows : EditClick(r)
    \/ \E r \in Rows : CancelClick(r)
    \/ \E r \in Rows, f \in TextFields, v \in TypedTexts : TypeInput(r, f, v)
    \/ \E r \in Rows : TypeInput(r, "is_gift", Empty)
    \/ \E r \in Rows : SaveClick(r)
    \/ \E k \in DOMAIN requests, o \in Outcomes : SaveSettled(k, o)
    \/ HideError

SpecEdit == Init /\ [][NextEdit]_vars

\* The page used for scanning only.
InitScan ==
    /\ Init
    /\ ~liveOnly
    /\ \A r \in Rows : rowLive[r] = StrFalse

NextScan ==
    \/ \E online \in BOOLEAN, lib \in BOOLEAN : StartScanClick(online, lib)
    \/ \E online \in BOOLEAN, lib \in BOOLEAN : ScanMarkReadClick(online, lib)
    \/ StopScanClick
    \/ \E i \in DOMAIN scanners : ScannerStarted(i)
    \/ \E i \in DOMAIN scanners : ScannerStartFailed(i)
    \/ \E i \in DOMAIN scanners : StopCompleted(i)
    \/ \E i \in DOMAIN scanners, t \in DecodedTexts : DecodeDefault(i, t)
    \/ \E i \in DOMAIN scanners, t \in DecodedTexts : DecodeMarkRead(i, t)
    \/ \E k \in DOMAIN requests, o \in Outcomes, txt \in ResponseTexts : IsbnSettled(k, o, txt)
    \/ HideError

SpecScan == InitScan /\ [][NextScan]_vars

\* ============================================================ claims

\* C1: every row is visible exactly when the trimmed, lower-cased search text
\* is empty or occurs in the row's lower-cased title, authors or tags, and
\* live-only is unchecked or the row's data-live is 'true' in any letter case;
\* every other row is hidden.
C1_RowVisibilityFollowsFilter ==
    LET query == ToLowerCase(Trim(searchValue))
    IN  \A r \in Rows :
            /\ rowDisplay[r] \in {"", "none"}
            /\ rowDisplay[r] = "" <=>
                  /\ \/ query = Empty
                     \/ \E f \in {"title", "authors", "tags"} :
                           Includes(ToLowerCase(rowData[r][f]), query)
                  /\ ~liveOnly \/ ToLowerCase(rowLive[r]) = StrTrue

\* A live-toggle update was just answered under a search text that needs
\* trimming, with live-only checked: one row shows and another is hidden.
C1_Witness ==
    /\ lastEvent.name = "live-response"
    /\ lastEvent.arg # <<"error">>
    /\ liveOnly
    /\ searchValue # Trim(searchValue)
    /\ \E r \in Rows : rowDisplay[r] = ""
    /\ \E r \in Rows : rowDisplay[r] = "none"

\* C2: enableEditing(row) records the HTML of every cell as it is just before,
\* keeps that record while the row is edited, and Cancel puts exactly that
\* HTML back in every cell, removes the 'editing' class and resets
\* editingRow to null, whatever was typed into the inputs.
C2_EditCancelRoundTrip ==
    [][\A r \in Rows :
          /\ (~rowClass[r] /\ rowClass'[r]) => originalValues'[r] = cells[r]
          /\ (rowClass[r] /\ rowClass'[r]) => originalValues'[r] = originalValues[r]
          /\ lastEvent' = Ev("cancel-click", r, <<>>) =>
                /\ rowClass[r]
                /\ cells'[r] = originalValues[r]
                /\ ~rowClass'[r]
                /\ editingRow' = NoRow]_vars

\* Cancel was just clicked on a row whose inputs the user had typed into, and
\* the row shows its rendered cells again.
C2_Witness ==
    \E r \in Rows :
        /\ lastEvent = Ev("cancel-click", r, <<>>)
        /\ typed > 0
        /\ ~rowClass[r]
        /\ editingRow = NoRow
        /\ cells[r] = originalValues[r]
        /\ cells[r][ActionsCell].class = "mark-read edit-book"

C4_ReadByIsbnOutcome ==
    [][lastEvent'.name = "isbn-response" =>
          LET outcome == lastEvent'.arg[1]
              txt == lastEvent'.arg[2]
          IN  /\ (reloads' = reloads + 1) <=> (outcome = "ok")
              /\ reloads' \in {reloads, reloads + 1}
              /\ outcome = "not-ok" => errorMessage' = <<"Failed to mark as read: ", txt>>
              /\ outcome = "error" => errorMessage' = <<"Network error while marking read.">>]_vars

\* A request sent by the scan-to-mark-read callback was just answered with a
\* non-OK status: the failure text shows and the page was not reloaded.
C4_Witness ==
    /\ lastEvent.name = "isbn-response"
    /\ lastEvent.arg[1] = "not-ok"
    /\ errorMessage = <<"Failed to mark as read: ", lastEvent.arg[2]>>
    /\ reloads = 0
    /\ \E i \in DOMAIN scanners : scanners[i].mode = "mark-read" /\ scanners[i].sent

\* C5: clicking a row's mark-read button sends exactly one POST to
\* /read/<data-id of that row> and does not reload; the page is reloaded on
\* account of a mark-read request only when that request has been answered.
C5_MarkReadClickSendsOnePost ==
    [][/\ \A r \in Rows :
             lastEvent' = Ev("mark-read-click", r, <<>>) =>
                /\ Len(requests') = Len(requests) + 1
                /\ SubSeq(requests', 1, Len(requests)) = requests
                /\ requests'[Len(requests')].url = <<"/read", RowId(r)>>
                /\ reloads' = reloads
       /\ (lastEvent'.name = "read-response" /\ reloads' # reloads) =>
             /\ lastEvent'.arg # <<"error">>
             /\ \E k \in DOMAIN requests : requests[k].url = <<"/read", RowId(lastEvent'.row)>>]_vars

\* C6: at most one row carries the 'editing' class, editingRow is that row,
\* and editingRow is null exactly when no row carries the class; clicking
\* Edit on a second row while a first is edited cancels the first: its cells
\* are restored and no request is sent.
C6_SingleEditingRow ==
    [][/\ \A r \in Rows : rowClass'[r] <=> editingRow' = r
       /\ \A r1 \in Rows, r2 \in Rows :
             (r1 # r2 /\ rowClass[r1] /\ lastEvent' = Ev("edit-click", r2, <<>>)) =>
                /\ ~rowClass'[r1]
                /\ cells'[r1] = originalValues[r1]
                /\ rowClass'[r2]
                /\ requests' = requests]_vars

\* C7: when no live-toggle request of a row is in flight, the row's data-live
\* says 'true' exactly when the row's live checkbox is checked.
C7_LiveAttrMatchesCheckbox ==
    \A r \in Rows :
        (\A k \in DOMAIN requests : ~(requests[k].kind = "live" /\ requests[k].row = r)) =>
            (IsLiveAttr(rowLive[r]) <=> liveChecked[r])

\* C8: a scanner instance whose callback has already sent a POST
\* /read_by_isbn sends no further one when it delivers another decoded text.
C8_OnePostPerScan ==
    [][\A i \in DOMAIN scanners :
          (lastEvent'.name = "decoded" /\ lastEvent'.row = i /\ scanners[i].sent
              /\ reloads' = reloads) =>
             Len(requests') <= Len(requests)]_vars

\* C9: once stop-scan was the last scanner button clicked and no stop() is
\* pending, no instance is running and the container is hidden.
C9_StoppedAfterStopClick ==
    (stopRequested /\ \A i \in DOMAIN scanners : scanners[i].state # "stopping") =>
        /\ \A i \in DOMAIN scanners : scanners[i].state # "running"
        /\ scannerDisplay = "none"

\* C10: clicking a row's Edit button puts the row into editing mode, also
\* after the row has been edited and cancelled before.
C10_EditAgainAfterCancel ==
    [][\A r \in Rows :
          lastEvent' = Ev("edit-click", r, <<>>) => (rowClass'[r] /\ editingRow' = r)]_vars

\* C11: a Save click sends exactly one POST /update/<data-id of the row> whose
\* body has the fields title, authors, tags, gift_from and is_gift and no
\* other, the four texts trimmed, and does not reload.  When that request
\* settles the page is reloaded exactly when the response is OK; a non-OK
\* response or a network failure shows an error message, does not reload and
\* leaves the row's class, cells and inputs as they were.
C11_SaveOutcome ==
    [][\A r \in Rows :
          /\ lastEvent' = Ev("save-click", r, <<>>) =>
                LET sent == requests'[Len(requests')]
                IN  /\ rowClass[r]
                    /\ Len(requests') = Len(requests) + 1
                    /\ SubSeq(requests', 1, Len(requests)) = requests
                    /\ sent.url = <<"/update", RowId(r)>>
                    /\ DOMAIN sent.body = {"title", "authors", "tags", "gift_from", "is_gift"}
                    /\ \A f \in {"title", "authors", "tags", "gift_from"} :
                          sent.body[f] = Trim(editInputs[r][f])
                    /\ sent.body.is_gift = editInputs[r].is_gift
                    /\ reloads' = reloads
                    /\ UNCHANGED <<cells, rowClass, editInputs, editingRow>>
          /\ (lastEvent'.name = "save-response" /\ lastEvent'.row = r) =>
                LET outcome == lastEvent'.arg[1]
                IN  /\ reloads' \in {reloads, reloads + 1}
                    /\ (reloads' = reloads + 1) <=> (outcome = "ok")
                    /\ outcome = "not-ok" => errorMessage' = <<"Failed to save changes.">>
                    /\ outcome = "error" =>
                          errorMessage' = <<"An error occurred while saving changes.">>
                    /\ outcome # "ok" =>
                          /\ rowClass'[r] = rowClass[r]
                          /\ editingRow' = editingRow
                          /\ cells'[r] = cells[r]
                          /\ editInputs'[r] = editInputs[r]]_vars

\* A save of a row whose inputs hold text with surrounding blanks was just
\* answered with a non-OK status: the message shows, nothing was reloaded and
\* the row is still edited with what was typed.
C11_Witness ==
    \E r \in Rows :
        /\ lastEvent = Ev("save-response", r, <<"not-ok">>)
        /\ errorMessage = <<"Failed to save changes.">>
        /\ reloads = 0
        /\ rowClass[r]
        /\ editingRow = r
        /\ HasEditButtons(r)
        /\ \E f \in TextFields : editInputs[r][f] # Trim(editInputs[r][f])

\* C12: when a POST /read/<id> is answered with a non-OK status or fails at
\* the network level, an error message is shown and the page is not reloaded.
C12_FailedMarkReadReported ==
    [][(lastEvent'.name = "read-response" /\ lastEvent'.arg # <<"ok">>) =>
          /\ errorMessage' # NoMsg
          /\ reloads' = reloads]_vars

\* C13: a change of a row's live checkbox sends the checkbox state as it is
\* just after the change and leaves data-live alone; data-live changes only
\* when an /update request of that row is answered, and then it becomes
\* 'true' or 'false' as the state that request captured, and every row is
\* shown or hidden by the filter on the new data-live: with live-only checked
\* a row whose captured state is unchecked is hidden.
C13_LiveAttrSetOnAnswer ==
    [][\A r \in Rows :
          /\ (lastEvent' = Ev("live-toggle-change", r, <<>>) /\ requests' # requests) =>
                /\ requests'[Len(requests')].row = r
                /\ requests'[Len(requests')].body.is_live = liveChecked'[r]
                /\ liveChecked'[r] = ~liveChecked[r]
          /\ rowLive'[r] # rowLive[r] =>
                /\ lastEvent'.name = "live-response"
                /\ lastEvent'.row = r
                /\ lastEvent'.arg # <<"error">>
          /\ (lastEvent'.name = "live-response" /\ lastEvent'.row = r
                 /\ lastEvent'.arg # <<"error">>) =>
                \E k \in DOMAIN requests :
                    /\ requests[k].kind = "live"
                    /\ requests[k].row = r
                    /\ requests' = Remove(requests, k)
                    /\ rowLive'[r] = IF requests[k].body.is_live
                                     THEN <<"t", "r", "u", "e">>
                                     ELSE <<"f", "a", "l", "s", "e">>
                    /\ \A q \in Rows \ {r} : rowLive'[q] = rowLive[q]
                    /\ \A q \in Rows :
                          rowDisplay'[q] =
                             IF /\ RowMatchesQuery(rowData[q], ToLowerCase(Trim(searchValue)))
                                /\ ~liveOnly \/ ToLowerCase(rowLive'[q]) = StrTrue
                             THEN "" ELSE "none"
                    /\ (liveOnly /\ ~requests[k].body.is_live) => rowDisplay'[r] = "none"]_vars

\* With live-only checked, the update sent when a row's checkbox was
\* unchecked was just answered while a later change of the same checkbox is
\* still unanswered: the row says 'false' and is hidden although its
\* checkbox is checked.
C13_Witness ==
    \E r \in Rows :
        /\ lastEvent.name = "live-response"
        /\ lastEvent.row = r
        /\ lastEvent.arg # <<"error">>
        /\ liveOnly
        /\ rowLive[r] = StrFalse
        /\ rowDisplay[r] = "none"
        /\ liveChecked[r]
        /\ \E k \in DOMAIN requests : requests[k].row = r /\ requests[k].body.is_live

\* C14: a click on a scanner start button made while the browser is offline
\* or window.Html5Qrcode is missing shows the matching error message, creates
\* no scanner instance and leaves the scanner container as it was, hidden if
\* no scanner was started before; when start() of an instance is rejected the
\* container is hidden and the camera error message is shown.
C14_NoScannerWhenStartFails ==
    [][/\ lastEvent'.name \in {"start-scan-click", "scan-mark-read-click"} =>
             IF lastEvent'.arg[1] = "offline" \/ lastEvent'.arg[2] = "no-library"
             THEN /\ errorMessage' =
                        IF lastEvent'.arg[1] = "offline"
                        THEN <<"You appear to be offline. Barcode scanning requires an internet connection to load the scanning library.">>
                        ELSE <<"Barcode scanner library failed to load. Please check your internet connection or try again later.">>
                  /\ scanners' = scanners
                  /\ html5QrCode' = html5QrCode
                  /\ scannerDisplay' = scannerDisplay
                  /\ scanners = <<>> => scannerDisplay' = "none"
             ELSE /\ Len(scanners') = Len(scanners) + 1
                  /\ scannerDisplay' = "block"
       /\ lastEvent'.name = "scanner-start-failed" =>
             /\ scannerDisplay' = "none"
             /\ errorMessage' = <<"Unable to access your camera. Please ensure a camera is available and that you have granted permission.">>
             /\ Len(scanners') = Len(scanners)
             /\ \A i \in DOMAIN scanners :
                   scanners'[i].state = "running" => scanners[i].state = "running"]_vars

\* After an instance's start() was rejected and its message went away, a
\* start button was clicked with the library missing: the library message
\* shows, no second instance exists and the container is hidden.
C14_Witness ==
    /\ lastEvent.name \in {"start-scan-click", "scan-mark-read-click"}
    /\ lastEvent.arg = <<"online", "no-library">>
    /\ errorMessage = <<"Barcode scanner library failed to load. Please check your internet connection or try again later.">>
    /\ Len(scanners) = 1
    /\ scanners[1].state = "failed"
    /\ scannerDisplay = "none"
====
